---- MODULE Spec2Model ----
(***************************************************************************)
(* Realtime synchronisation layer of the sequencing dashboard              *)
(* (SequencerRealtime in src/src/index.js; the same effect, handlers and   *)
(* fetch functions are in src/src/App.js and src/unnamed/part_000).        *)
(*                                                                         *)
(* The component keeps two lanes (rows + pending containers), a shared     *)
(* buffer indicator and a status string; a socket.io channel and a polling *)
(* timer trigger asynchronous fetches whose responses replace lane state.  *)
(***************************************************************************)
EXTENDS Integers, Sequences, FiniteSets, Bags, TLC

(***************************************************************************)
(* JavaScript values.  Every value is a record [k, v]: k is the kind,      *)
(* v the number it carries (0 when the kind carries none).                 *)
(*   "null"  null or undefined                                             *)
(*   "num"   the finite number v                                           *)
(*   "nan"   the number NaN                                                *)
(*   "date"  a date string that Date.parse reads as v milliseconds         *)
(*   "bad"   a non-empty string that is neither a date nor a number        *)
(***************************************************************************)
Null == [k |-> "null", v |-> 0]
NaN == [k |-> "nan", v |-> 0]
NumV(n) == [k |-> "num", v |-> n]
DateV(n) == [k |-> "date", v |-> n]
BadStr == [k |-> "bad", v |-> 0]

\* JavaScript truthiness: null, undefined, 0 and NaN are falsy; the strings
\* of the model are non-empty, hence truthy.
Truthy(x) == /\ x.k # "null"
             /\ x.k # "nan"
             /\ ~(x.k = "num" /\ x.v = 0)

\* a ?? b ?? ... : the first value of the chain that is not null/undefined.
RECURSIVE Coalesce(_)
Coalesce(chain) ==
  IF chain = <<>> THEN Null
  ELSE IF Head(chain).k # "null" THEN Head(chain)
  ELSE Coalesce(Tail(chain))

\* Date.parse(s) for a string s.
DateParse(s) == IF s.k = "date" THEN NumV(s.v) ELSE NaN

\* Number(x).
ToNumber(x) ==
  CASE x.k = "num" -> x
    [] x.k = "null" -> NumV(0)
    [] OTHER -> NaN

\* Number.isFinite(x) && !Number.isNaN(x)
IsFinite(x) == x.k = "num"

(***************************************************************************)
(* Rows.  The fields the ordering, the filter and the export read are      *)
(* modelled: wagonRawTime is r.wagonRaw.time (Null when wagonRaw is        *)
(* absent); the text fields are held as their text, a sequence of          *)
(* characters (<<>> when the field is absent or empty); nil marks an array *)
(* entry that is null instead of a row.                                    *)
(***************************************************************************)
Row(id, wagonRawTime, time, finalizedAt, createdAt, ts) ==
  [id |-> id, wagonRawTime |-> wagonRawTime, time |-> time,
   finalizedAt |-> finalizedAt, createdAt |-> createdAt, ts |-> ts,
   nil |-> FALSE, wagon_no |-> <<>>, train_no |-> <<>>,
   container_no_1 |-> <<>>, container_no_2 |-> <<>>,
   side |-> <<>>, iso_code_1 |-> <<>>, iso_code_2 |-> <<>>]

\* a null entry of a rows array: every r?.field of it is undefined
NilRow == [Row(Null, Null, Null, Null, Null, Null) EXCEPT !.nil = TRUE]

rowTimestamp(r) ==
  LET t == Coalesce(<<r.wagonRawTime, r.time, r.finalizedAt, r.createdAt, r.ts>>)
      parsed == IF Truthy(t)
                THEN (IF t.k = "num" THEN t ELSE DateParse(t))
                ELSE Null
  IN IF IsFinite(parsed) THEN parsed
     ELSE IF Truthy(r.id) THEN ToNumber(r.id) ELSE NumV(0)

\* The comparator handed to sort: rowTimestamp(b) - rowTimestamp(a).
compareRows(a, b) ==
  LET tb == rowTimestamp(b)
      ta == rowTimestamp(a)
  IN IF tb.k = "nan" \/ ta.k = "nan" THEN NaN ELSE NumV(tb.v - ta.v)

\* Array.prototype.sort reads a NaN comparator result as +0.
Order(x, y) ==
  LET c == compareRows(x, y) IN IF c.k = "nan" THEN 0 ELSE c.v

(***************************************************************************)
(* Array.prototype.sort on a short array (fewer than 64 elements): find    *)
(* the initial run, reverse it when strictly descending, then insert the   *)
(* remaining elements by binary search.                                    *)
(***************************************************************************)
Reverse(s) == [i \in 1..Len(s) |-> s[Len(s) + 1 - i]]

RunOk(a, desc, i) ==
  IF desc THEN Order(a[i], a[i - 1]) < 0 ELSE Order(a[i], a[i - 1]) >= 0

CountRun(a) ==
  LET desc == Order(a[2], a[1]) < 0
  IN CHOOSE L \in 2..Len(a) :
       /\ \A i \in 3..L : RunOk(a, desc, i)
       /\ (L = Len(a) \/ ~RunOk(a, desc, L + 1))

MakeRun(a) ==
  LET L == CountRun(a)
  IN IF Order(a[2], a[1]) < 0
     THEN Reverse(SubSeq(a, 1, L)) \o SubSeq(a, L + 1, Len(a))
     ELSE a

\* Variant: the pivot is placed before the elements it compares equal to.
RECURSIVE BinarySearch_BeforeEqual(_, _, _, _)
BinarySearch_BeforeEqual(a, pivot, left, right) ==
  IF left >= right THEN left
  ELSE LET mid == left + ((right - left) \div 2)
       IN IF Order(pivot, a[mid]) <= 0
          THEN BinarySearch_BeforeEqual(a, pivot, left, mid)
          ELSE BinarySearch_BeforeEqual(a, pivot, mid + 1, right)

RECURSIVE BinarySearch(_, _, _, _)
BinarySearch(a, pivot, left, right) ==
  IF left >= right THEN left
  ELSE LET mid == left + ((right - left) \div 2)
       IN IF Order(pivot, a[mid]) < 0
          THEN BinarySearch(a, pivot, left, mid)
          ELSE BinarySearch(a, pivot, mid + 1, right)

RECURSIVE BinaryInsertionSort(_, _)
BinaryInsertionSort(a, start) ==
  IF start > Len(a) THEN a
  ELSE LET pivot == a[start]
           left == BinarySearch(a, pivot, 1, start)
           moved == SubSeq(a, 1, left - 1) \o <<pivot>>
                      \o SubSeq(a, left, start - 1)
                      \o SubSeq(a, start + 1, Len(a))
       IN BinaryInsertionSort(moved, start + 1)

ArraySort(a) ==
  IF Len(a) < 2 THEN a
  ELSE BinaryInsertionSort(MakeRun(a), CountRun(a) + 1)

(***************************************************************************)
(* Array-valued response fields: [k, v] with k = "arr" (the array v),      *)
(* "null" (absent) or "obj" (a truthy value that is not an array).         *)
(***************************************************************************)
Arr(s) == [k |-> "arr", v |-> s]
Absent == [k |-> "null", v |-> <<>>]
NotArray == [k |-> "obj", v |-> <<>>]

\* x || []
OrEmpty(x) == IF x.k = "null" THEN Arr(<<>>) ELSE x

\* Variant: a row whose id stands earlier in the array is dropped.
RECURSIVE FirstOfEachId(_)
FirstOfEachId(a) ==
  IF a = <<>> THEN <<>>
  ELSE LET front == FirstOfEachId(SubSeq(a, 1, Len(a) - 1))
           x == a[Len(a)]
       IN IF \E i \in 1..Len(front) : front[i].id = x.id
          THEN front ELSE Append(front, x)

sortRowsDesc_Dedup(rows) ==
  IF rows.k # "arr" THEN <<>> ELSE ArraySort(FirstOfEachId(rows.v))

\* Variant: sorted in ascending order, then reversed.
sortRowsDesc_SortReverse(rows) ==
  IF rows.k # "arr" THEN <<>> ELSE Reverse(ArraySort(rows.v))

sortRowsDesc(rows) ==
  IF rows.k # "arr" THEN <<>> ELSE ArraySort(rows.v)

(***************************************************************************)
(* Responses of the sequence endpoints.                                    *)
(***************************************************************************)
RowA == Row(NumV(1), Null, NumV(1000), Null, Null, Null)
RowB == Row(NumV(2), Null, NumV(2000), Null, Null, Null)
\* a row with an opaque (non-numeric) id and no timestamp field
RowX == Row(BadStr, Null, Null, Null, Null, Null)

\* a row whose timestamp is wagonRaw.time, a date string, equal to RowA's
RowC == Row(NumV(3), DateV(1000), Null, Null, Null, Null)

PendingP == [id |-> NumV(7)]
PendingQ == [id |-> NumV(8)]

\* The bodies (r.data) the endpoints answer with: three with ok true, and
\* one with ok false that still carries rows and a buffer.
Body(ok, rows, pendingContainers, buf) ==
  [ok |-> ok, rows |-> rows, pendingContainers |-> pendingContainers,
   buffer |-> buf]

Bodies ==
  { Body(TRUE, Arr(<<RowA, RowB>>), Arr(<<PendingP>>), NumV(1)),
    Body(TRUE, Arr(<<RowA, RowX, RowB>>), Arr(<<>>), Null),
    Body(TRUE, Absent, Absent, NumV(2)),
    Body(FALSE, Arr(<<RowB>>), Arr(<<PendingP, PendingP>>), NumV(2)) }

NoBody == [ok |-> FALSE, rows |-> Absent, pendingContainers |-> Absent,
           buffer |-> Null]

\* What axios.get settles with: a rejection, a response without data,
\* or a response with a body.
ResponsesOf(bodies) ==
  {[kind |-> "reject", data |-> NoBody], [kind |-> "nodata", data |-> NoBody]}
    \cup {[kind |-> "data", data |-> d] : d \in bodies}

\* Variant: the condition without the `ok` test.
Usable_NoOkCheck(r) == r.kind = "data"

\* r && r.data && r.data.ok
Usable(r) == r.kind = "data" /\ r.data.ok

Lanes == {"left", "right"}

\* Upper bound on the number of requests in flight at once.
MaxInflight == 2

(***************************************************************************)
(* State.                                                                  *)
(***************************************************************************)
VARIABLES
  leftRows, rightRows,        \* useState: arrays of rows
  leftPending, rightPending,  \* useState: pending containers (array values)
  buffer,                     \* useState: shared buffer indicator
  status,                     \* useState: status text
  phase,                      \* "rendered" | "mounted" | "unmounted"
  socketRef,                  \* TRUE when socketRef.current holds a socket
  sock,                       \* the socket: "none" | "connecting" | "connected" | "closed"
  pollRef,                    \* pollRef.current: 0 (null) or an interval id
  timers,                     \* the interval ids that are running
  created,                    \* number of setInterval calls so far
  inflight,                   \* bag of requests awaiting their response
  last,                       \* the step taken last and what it issued
  payloads,                   \* the bodies the endpoints answer with
  query,                      \* useState: search text
  showTentativeOnly,          \* useState: tentative-only filter
  pageSize,                   \* useState: rows per page
  pageLeft, pageRight         \* useState: page index of each lane

data == <<leftRows, rightRows, leftPending, rightPending, buffer>>
sched == <<status, phase, socketRef, sock, pollRef, timers, created>>
view == <<query, showTentativeOnly, pageSize, pageLeft, pageRight>>
vars == <<leftRows, rightRows, leftPending, rightPending, buffer, status, phase,
          socketRef, sock, pollRef, timers, created, inflight, last, payloads,
          query, showTentativeOnly, pageSize, pageLeft, pageRight>>

Responses == ResponsesOf(payloads)

\* `mounted` of the effect: true from the effect's run to its cleanup.
mounted == phase = "mounted"

\* The closures the effect captures are those of the first render, where
\* `buffer` is still its initial value.
FirstRenderBuffer == Null

\* no file built, no download
NoFile == [built |-> FALSE, download |-> "-", content |-> <<>>]

Step(op, arg, res) ==
  [op |-> op, arg |-> arg, res |-> res, promise |-> "-", file |-> NoFile]

\* The state after construction, with a backend that answers with `bodies`.
Start(bodies) ==
  /\ payloads = bodies
  /\ query = <<>>
  /\ showTentativeOnly = FALSE
  /\ pageSize = 25
  /\ pageLeft = 0
  /\ pageRight = 0
  /\ leftRows = <<>>
  /\ rightRows = <<>>
  /\ leftPending = Arr(<<>>)
  /\ rightPending = Arr(<<>>)
  /\ buffer = Null
  /\ status = "connecting"
  /\ phase = "rendered"
  /\ socketRef = FALSE
  /\ sock = "none"
  /\ pollRef = 0
  /\ timers = {}
  /\ created = 0
  /\ inflight = EmptyBag
  /\ last = Step("init", "-", "-")

Init == Start(Bodies)

(***************************************************************************)
(* Requests.  A request remembers its lane, the `buffer` its closure saw   *)
(* and whether it belongs to the initial refresh of the effect.            *)
(***************************************************************************)
Request(lane, buf, initial) == [lane |-> lane, buffer |-> buf, initial |-> initial]

\* fetchLeft() / fetchRight() up to the await: one GET is sent.
fetchLeft(buf, initial) == SetToBag({Request("left", buf, initial)})
fetchRight(buf, initial) == SetToBag({Request("right", buf, initial)})

\* fetchAll(): Promise.all([fetchLeft(), fetchRight()])
fetchAll(buf, initial) == fetchLeft(buf, initial) (+) fetchRight(buf, initial)

Room(n) == BagCardinality(inflight) + n <= MaxInflight

(***************************************************************************)
(* startPolling, on the record p = [pollRef, timers, created, status].     *)
(***************************************************************************)
Poll == [pollRef |-> pollRef, timers |-> timers, created |-> created,
         status |-> status]

\* Variant: the interval is started but its id is not kept in pollRef.
startPolling_NoRef(p) ==
  IF p.pollRef # 0 THEN p
  ELSE [pollRef |-> 0,
        timers |-> p.timers \cup {p.created + 1},
        created |-> p.created + 1,
        status |-> "polling"]

startPolling(p) ==
  IF p.pollRef # 0 THEN p
  ELSE [pollRef |-> p.created + 1,
        timers |-> p.timers \cup {p.created + 1},
        created |-> p.created + 1,
        status |-> "polling"]

\* Variant: the status is set before startPolling, which then overwrites it.
fallBack_StatusFirst(p, st) ==
  IF p.pollRef = 0 THEN startPolling([p EXCEPT !.status = st])
  ELSE [p EXCEPT !.status = st]

\* if (!pollRef.current) startPolling(); setStatus(st)
fallBack(p, st) ==
  [(IF p.pollRef = 0 THEN startPolling(p) ELSE p) EXCEPT !.status = st]

SetPoll(p) ==
  /\ pollRef' = p.pollRef
  /\ timers' = p.timers
  /\ created' = p.created
  /\ status' = p.status

(***************************************************************************)
(* The effect (runs once after the first render).                          *)
(***************************************************************************)
\* Variant: the catch block sets the status but starts no timer.
Mount_NoFallback ==
  /\ phase = "rendered"
  /\ phase' = "mounted"
  /\ inflight' = inflight (+) fetchAll(FirstRenderBuffer, TRUE)
  /\ \E throws \in BOOLEAN :
       IF throws
       THEN /\ status' = "polling"
            /\ UNCHANGED <<socketRef, sock, pollRef, timers, created>>
            /\ last' = Step("mount", "throw", "-")
       ELSE /\ socketRef' = TRUE
            /\ sock' = "connecting"
            /\ UNCHANGED <<pollRef, timers, created, status>>
            /\ last' = Step("mount", "socket", "-")
  /\ UNCHANGED <<data, payloads, view>>

Mount ==
  /\ phase = "rendered"
  /\ phase' = "mounted"
  /\ inflight' = inflight (+) fetchAll(FirstRenderBuffer, TRUE)
  /\ \E throws \in BOOLEAN :
       IF throws
       THEN \* catch: startPolling(); setStatus('polling')
            /\ SetPoll([startPolling(Poll) EXCEPT !.status = "polling"])
            /\ UNCHANGED <<socketRef, sock>>
            /\ last' = Step("mount", "throw", "-")
       ELSE /\ socketRef' = TRUE
            /\ sock' = "connecting"
            /\ UNCHANGED <<pollRef, timers, created, status>>
            /\ last' = Step("mount", "socket", "-")
  /\ UNCHANGED <<data, payloads, view>>

(***************************************************************************)
(* Channel handlers.                                                       *)
(***************************************************************************)
\* Variant: the connect handler stops the polling timer.
OnConnect_StopsPolling ==
  /\ phase = "mounted"
  /\ sock = "connecting"
  /\ sock' = "connected"
  /\ status' = "socket:connected"
  /\ timers' = timers \ {pollRef}
  /\ pollRef' = 0
  /\ last' = Step("connect", "-", "-")
  /\ UNCHANGED <<data, phase, socketRef, created, inflight, payloads, view>>

\* Variant: the connect handler starts polling as the failure handlers do.
OnConnect_StartsPolling ==
  /\ phase = "mounted"
  /\ sock = "connecting"
  /\ sock' = "connected"
  /\ SetPoll(fallBack(Poll, "socket:connected"))
  /\ last' = Step("connect", "-", "-")
  /\ UNCHANGED <<data, phase, socketRef, inflight, payloads, view>>

OnConnect ==
  /\ phase = "mounted"
  /\ sock = "connecting"
  /\ sock' = "connected"
  /\ status' = "socket:connected"
  /\ last' = Step("connect", "-", "-")
  /\ UNCHANGED <<data, phase, socketRef, pollRef, timers, created, inflight,
               payloads, view>>

\* what a failure handler finds in pollRef.current
Seen == IF pollRef = 0 THEN "idle" ELSE "polling"

OnConnectError ==
  /\ phase = "mounted"
  /\ sock = "connecting"
  /\ SetPoll(fallBack(Poll, "socket:error"))
  /\ last' = Step("connect_error", Seen, "-")
  /\ UNCHANGED <<data, phase, socketRef, sock, inflight, payloads, view>>

OnDisconnect ==
  /\ phase = "mounted"
  /\ sock = "connected"
  /\ sock' = "connecting"
  /\ SetPoll(fallBack(Poll, "socket:disconnected"))
  /\ last' = Step("disconnect", Seen, "-")
  /\ UNCHANGED <<data, phase, socketRef, inflight, payloads, view>>

\* The refresh events and what each handler calls.
Events ==
  {"sequence:left:changed", "sequence:right:changed", "sequence:changed",
   "sequencing:change", "container:changed", "flush", "update"}

\* The payload of `update`: none, {side:'left'}, {side:'right'}, anything else.
Sides == {"none", "left", "right", "other"}

\* Variant: `container:changed` is wired to the left refresh.
Scope_ContainerLeft(event, side) ==
  CASE event = "sequence:left:changed" -> "left"
    [] event = "container:changed" -> "left"
    [] event = "sequence:right:changed" -> "right"
    [] event = "update" /\ side = "left" -> "left"
    [] event = "update" /\ side = "right" -> "right"
    [] OTHER -> "full"

Scope(event, side) ==
  CASE event = "sequence:left:changed" -> "left"
    [] event = "sequence:right:changed" -> "right"
    [] event = "update" /\ side = "left" -> "left"
    [] event = "update" /\ side = "right" -> "right"
    [] OTHER -> "full"

\* fireLeftRefresh / fireRightRefresh / fireFullRefresh
Fire(scope, buf) ==
  CASE scope = "left" -> fetchLeft(buf, FALSE)
    [] scope = "right" -> fetchRight(buf, FALSE)
    [] OTHER -> fetchAll(buf, FALSE)

OnEvent(event, side) ==
  /\ phase = "mounted"
  /\ sock = "connected"
  /\ side # "none" => event = "update"
  /\ LET issued == Fire(Scope(event, side), FirstRenderBuffer)
     IN /\ Room(BagCardinality(issued))
        /\ inflight' = inflight (+) issued
  /\ last' = Step(event, side, "-")
  /\ UNCHANGED <<data, sched, payloads, view>>

\* The interval callback: fetchAll().
Tick ==
  /\ timers # {}
  /\ Room(2)
  /\ inflight' = inflight (+) fetchAll(FirstRenderBuffer, FALSE)
  /\ last' = Step("tick", "-", "-")
  /\ UNCHANGED <<data, sched, payloads, view>>

\* The Refresh button: fetchAll() of the render on screen.
Refresh ==
  /\ phase = "mounted"
  /\ Room(2)
  /\ inflight' = inflight (+) fetchAll(buffer, FALSE)
  /\ last' = Step("refresh", "-", "-")
  /\ UNCHANGED <<data, sched, payloads, view>>

(***************************************************************************)
(* The continuation of fetchLeft / fetchRight after the await.             *)
(***************************************************************************)
\* the try block throws when axios.get rejects; catch takes every throw
Thrown(resp) == resp.kind = "reject"
Caught(resp) == Thrown(resp)
Promise(resp) == IF Thrown(resp) /\ ~Caught(resp) THEN "rejected" ELSE "fulfilled"

Class(resp) ==
  CASE resp.kind # "data" -> resp.kind
    [] resp.data.ok -> "ok"
    [] OTHER -> "notok"

\* r.data.buffer ?? buffer, with the `buffer` of the request's closure
NextBuffer(req, resp) ==
  IF resp.data.buffer.k # "null" THEN resp.data.buffer ELSE req.buffer

\* Variant: the left continuation also stores the rows in the right lane.
ApplyLeft_Both(req, resp) ==
  IF Usable(resp)
  THEN /\ leftRows' = sortRowsDesc(OrEmpty(resp.data.rows))
       /\ rightRows' = sortRowsDesc(OrEmpty(resp.data.rows))
       /\ leftPending' = OrEmpty(resp.data.pendingContainers)
       /\ buffer' = NextBuffer(req, resp)
       /\ UNCHANGED rightPending
  ELSE UNCHANGED data

\* Variant: the rows of the response are merged into the rows on screen.
ApplyLeft_Merge(req, resp) ==
  IF Usable(resp)
  THEN /\ leftRows' = sortRowsDesc(Arr(leftRows \o sortRowsDesc(OrEmpty(resp.data.rows))))
       /\ leftPending' = OrEmpty(resp.data.pendingContainers)
       /\ buffer' = NextBuffer(req, resp)
       /\ UNCHANGED <<rightRows, rightPending>>
  ELSE UNCHANGED data

ApplyLeft(req, resp) ==
  IF Usable(resp)
  THEN /\ leftRows' = sortRowsDesc(OrEmpty(resp.data.rows))
       /\ leftPending' = OrEmpty(resp.data.pendingContainers)
       /\ buffer' = NextBuffer(req, resp)
       /\ UNCHANGED <<rightRows, rightPending>>
  ELSE UNCHANGED data

\* Variant: a response to the initial request is dropped once the lane
\* holds rows of a later request.
ApplyRight_DropStale(req, resp) ==
  IF Usable(resp) /\ ~(req.initial /\ rightRows # <<>>)
  THEN /\ rightRows' = sortRowsDesc(OrEmpty(resp.data.rows))
       /\ rightPending' = OrEmpty(resp.data.pendingContainers)
       /\ buffer' = NextBuffer(req, resp)
       /\ UNCHANGED <<leftRows, leftPending>>
  ELSE UNCHANGED data

ApplyRight(req, resp) ==
  IF Usable(resp)
  THEN /\ rightRows' = sortRowsDesc(OrEmpty(resp.data.rows))
       /\ rightPending' = OrEmpty(resp.data.pendingContainers)
       /\ buffer' = NextBuffer(req, resp)
       /\ UNCHANGED <<leftRows, leftPending>>
  ELSE UNCHANGED data

\* Variant: the then-callback runs as soon as one request has settled.
InitialPending_Race(bag) == FALSE

\* fetchAll().then(() => { if (mounted) setStatus('ready'); }): runs once
\* both requests of the initial refresh have settled.
InitialPending(bag) == \E r \in BagToSet(bag) : r.initial

Settle(req, resp) ==
  /\ BagIn(req, inflight)
  /\ inflight' = inflight (-) SetToBag({req})
  /\ IF req.lane = "left" THEN ApplyLeft(req, resp) ELSE ApplyRight(req, resp)
  /\ status' = IF req.initial /\ ~InitialPending(inflight') /\ mounted
               THEN "ready" ELSE status
  /\ last' = [Step("settle", req.lane, Class(resp))
                 EXCEPT !.promise = Promise(resp)]
  /\ UNCHANGED <<phase, socketRef, sock, pollRef, timers, created, payloads, view>>

(***************************************************************************)
(* The effect's cleanup.  socket.disconnect() on a connected socket emits  *)
(* `disconnect` to the subscribed handler before it returns.               *)
(***************************************************************************)
Teardown ==
  /\ phase = "mounted"
  /\ phase' = "unmounted"
  /\ LET cleared == [Poll EXCEPT !.timers =
                       IF pollRef # 0 THEN timers \ {pollRef} ELSE timers]
     IN IF socketRef
        THEN /\ sock' = "closed"
             /\ SetPoll(IF sock = "connected"
                        THEN fallBack(cleared, "socket:disconnected")
                        ELSE cleared)
        ELSE /\ sock' = sock
             /\ SetPoll(cleared)
  /\ last' = Step("teardown", "-", "-")
  /\ UNCHANGED <<data, socketRef, inflight, payloads, view>>

Next ==
  \/ Mount
  \/ OnConnect
  \/ OnConnectError
  \/ OnDisconnect
  \/ \E event \in Events, side \in Sides : OnEvent(event, side)
  \/ Tick
  \/ Refresh
  \/ \E req \in BagToSet(inflight), resp \in Responses : Settle(req, resp)
  \/ Teardown

Spec == Init /\ [][Next]_vars

(***************************************************************************)
(* The fetch layer against a backend whose rows are any sequence of up to  *)
(* MaxRows rows of RowPool (rows out of order, with equal timestamps, with *)
(* repeated ids, with no usable timestamp), and whose rows and             *)
(* pendingContainers may be absent or not an array.  The page is mounted   *)
(* and then refreshed by the button whenever no request is in flight;      *)
(* BaseBody is what the endpoints answer with besides.                     *)
(***************************************************************************)
\* Upper bound on the number of rows in a response.
MaxRows == 3

RowPool == {RowA, RowB, RowC, RowX}

RECURSIVE SeqsUpTo(_, _)
SeqsUpTo(S, n) ==
  IF n = 0 THEN {<<>>}
  ELSE LET shorter == SeqsUpTo(S, n - 1)
       IN shorter \cup {Append(q, x) : q \in shorter, x \in S}

BaseBody == Body(TRUE, Arr(<<RowB>>), Arr(<<PendingP>>), Null)

RowBodies ==
  {Body(TRUE, Arr(q), Arr(<<PendingP>>), Null) : q \in SeqsUpTo(RowPool, MaxRows)}
    \cup {Body(TRUE, r, p, Null) :
            r \in {Absent, NotArray, Arr(<<RowA>>)},
            p \in {Absent, NotArray, Arr(<<PendingP, PendingQ>>),
                   Arr(<<PendingQ, PendingP>>)}}

InitRows == \E b \in RowBodies : Start({b, BaseBody})

NextRows ==
  \/ Mount
  \/ inflight = EmptyBag /\ Refresh
  \/ \E req \in BagToSet(inflight), resp \in Responses : Settle(req, resp)

SpecRows == InitRows /\ [][NextRows]_vars

(***************************************************************************)
(* The fetch layer against a backend whose response holds RowA and one row *)
(* of StampRows: every timestamp source of the row is absent, a string     *)
(* that is no date, or a number of its own, and the id is absent, a        *)
(* number or a string that is no number.                                   *)
(***************************************************************************)
StampValues(n) == {Null, BadStr, NumV(n)}

StampRows ==
  {Row(id, w, t, f, c, s) :
     id \in {Null, NumV(5), BadStr},
     w \in StampValues(100) \cup {DateV(150)}, t \in StampValues(200) \cup {NumV(0)},
     f \in StampValues(300), c \in StampValues(400), s \in StampValues(500)}

InitStamp ==
  \E r \in StampRows : Start({Body(TRUE, Arr(<<RowA, r>>), Arr(<<>>), Null)})

NextStamp ==
  \/ Mount
  \/ inflight = EmptyBag /\ Refresh
  \/ \E req \in BagToSet(inflight), resp \in Responses : Settle(req, resp)

SpecStamp == InitStamp /\ [][NextStamp]_vars

(***************************************************************************)
(* The variant of the component in App.js: the same effect and timer, a    *)
(* fetch continuation that stores the rows as they come, and the "Flush    *)
(* both" button.  The two POSTs of the button are requests in flight whose *)
(* lane is the endpoint; the bodies of this specification carry arrays.    *)
(***************************************************************************)
FlushUrls == {"flush", "flush/right"}

\* fetchLeft / fetchRight of App.js after the await
SettleApp(req, resp) ==
  /\ BagIn(req, inflight)
  /\ req.lane \in Lanes
  /\ inflight' = inflight (-) SetToBag({req})
  /\ IF Usable(resp)
     THEN /\ buffer' = NextBuffer(req, resp)
          /\ IF req.lane = "left"
             THEN /\ leftRows' = OrEmpty(resp.data.rows).v
                  /\ leftPending' = OrEmpty(resp.data.pendingContainers)
                  /\ UNCHANGED <<rightRows, rightPending>>
             ELSE /\ rightRows' = OrEmpty(resp.data.rows).v
                  /\ rightPending' = OrEmpty(resp.data.pendingContainers)
                  /\ UNCHANGED <<leftRows, leftPending>>
     ELSE UNCHANGED data
  /\ status' = IF req.initial /\ ~InitialPending(inflight') /\ mounted
               THEN "ready" ELSE status
  /\ last' = [Step("settle", req.lane, Class(resp))
                 EXCEPT !.promise = Promise(resp)]
  /\ UNCHANGED <<phase, socketRef, sock, pollRef, timers, created, payloads, view>>

\* the click on "Flush both", up to the first await: POST /api/flush
FlushBoth ==
  /\ phase = "mounted"
  /\ inflight = EmptyBag
  /\ inflight' = SetToBag({Request("flush", buffer, FALSE)})
  /\ last' = Step("flush:click", "-", "-")
  /\ UNCHANGED <<data, sched, payloads, view>>

\* a POST of the button settles: a rejection goes to the catch, the first
\* POST is followed by the second, the second by fetchAll()
PostSettles(req, fulfilled) ==
  /\ BagIn(req, inflight)
  /\ req.lane \in FlushUrls
  /\ inflight' = (inflight (-) SetToBag({req}))
                   (+) (IF ~fulfilled THEN EmptyBag
                        ELSE IF req.lane = "flush"
                             THEN SetToBag({Request("flush/right", req.buffer, FALSE)})
                             ELSE fetchAll(req.buffer, FALSE))
  /\ last' = Step("flush:post", req.lane,
                  IF ~fulfilled THEN "caught"
                  ELSE IF req.lane = "flush" THEN "next" ELSE "fetchAll")
  /\ UNCHANGED <<data, sched, payloads, view>>

InitFlush == Start(Bodies)

NextFlush ==
  \/ Mount
  \/ Tick
  \/ FlushBoth
  \/ \E req \in BagToSet(inflight), fulfilled \in BOOLEAN : PostSettles(req, fulfilled)
  \/ \E req \in BagToSet(inflight), resp \in Responses : SettleApp(req, resp)

\* every request settles, and a running timer fires
SpecFlush ==
  /\ InitFlush
  /\ [][NextFlush]_vars
  /\ WF_vars(Tick)
  /\ WF_vars(\E req \in BagToSet(inflight), fulfilled \in BOOLEAN :
               PostSettles(req, fulfilled))
  /\ WF_vars(\E req \in BagToSet(inflight), resp \in Responses :
               SettleApp(req, resp))

(***************************************************************************)
(* The derived view: filterFn, the filtered rows and the page of each      *)
(* lane, as computed by a render from the state.                           *)
(***************************************************************************)
\* String.prototype.toLowerCase, on the characters the inputs use
LowerChar(c) == IF c = "A" THEN "a" ELSE c
toLowerCase(t) == [i \in DOMAIN t |-> LowerChar(t[i])]

\* String.prototype.includes
includes(t, q) ==
  \E i \in 0..(Len(t) - Len(q)) : SubSeq(t, i + 1, i + Len(q)) = q

\* `${row.wagon_no || ''} ${row.train_no || ''} ${...} ${...}`.toLowerCase()
SearchText(row) ==
  toLowerCase(row.wagon_no \o <<" ">> \o row.train_no \o <<" ">>
                \o row.container_no_1 \o <<" ">> \o row.container_no_2)

\* Variant: a finalized row is dropped whether or not the filter is set.
filterFn_TentativeOr(row) ==
  IF row.nil THEN FALSE
  ELSE IF query # <<>> /\ ~includes(SearchText(row), toLowerCase(query)) THEN FALSE
  ELSE IF showTentativeOnly \/ Truthy(row.finalizedAt) THEN FALSE
  ELSE TRUE

filterFn(row) ==
  IF row.nil THEN FALSE
  ELSE IF query # <<>> /\ ~includes(SearchText(row), toLowerCase(query)) THEN FALSE
  ELSE IF showTentativeOnly /\ Truthy(row.finalizedAt) THEN FALSE
  ELSE TRUE

filteredLeft == SelectSeq(leftRows, filterFn)
filteredRight == SelectSeq(rightRows, filterFn)

\* Array.prototype.slice(begin, end) for begin, end >= 0
slice(a, begin, end) ==
  SubSeq(a, begin + 1, IF end < Len(a) THEN end ELSE Len(a))

pagedLeft == slice(filteredLeft, pageLeft * pageSize, (pageLeft + 1) * pageSize)
pagedRight == slice(filteredRight, pageRight * pageSize, (pageRight + 1) * pageSize)

(***************************************************************************)
(* The controls of the view.                                               *)
(***************************************************************************)
\* the search box: onChange sets the text and resets both pages
SetQuery(q) ==
  /\ phase = "mounted"
  /\ query' = q
  /\ pageLeft' = 0
  /\ pageRight' = 0
  /\ last' = Step("query", "-", "-")
  /\ UNCHANGED <<data, sched, inflight, payloads, showTentativeOnly, pageSize>>

\* the tentative-only checkbox: onChange sets the flag
SetShowTentativeOnly(checked) ==
  /\ phase = "mounted"
  /\ showTentativeOnly' = checked
  /\ last' = Step("tentativeOnly", "-", "-")
  /\ UNCHANGED <<data, sched, inflight, payloads, query, pageSize, pageLeft,
                 pageRight>>

\* the options of the page size select
PageSizes == {10, 25, 50, 100}

\* Variant: the page size select leaves the page indices alone.
SetPageSize_KeepPages(n) ==
  /\ phase = "mounted"
  /\ pageSize' = n
  /\ last' = Step("pageSize", "-", "-")
  /\ UNCHANGED <<data, sched, inflight, payloads, query, showTentativeOnly,
                 pageLeft, pageRight>>

\* the page size select: onChange sets the size and resets both pages
SetPageSize(n) ==
  /\ phase = "mounted"
  /\ pageSize' = n
  /\ pageLeft' = 0
  /\ pageRight' = 0
  /\ last' = Step("pageSize", "-", "-")
  /\ UNCHANGED <<data, sched, inflight, payloads, query, showTentativeOnly>>

\* Prev / Next of a lane; a disabled button takes no click
PrevLeft ==
  /\ phase = "mounted"
  /\ pageLeft # 0
  /\ pageLeft' = IF pageLeft - 1 > 0 THEN pageLeft - 1 ELSE 0
  /\ last' = Step("prev", "left", "-")
  /\ UNCHANGED <<data, sched, inflight, payloads, query, showTentativeOnly,
                 pageSize, pageRight>>

NextLeft ==
  /\ phase = "mounted"
  /\ ~((pageLeft + 1) * pageSize >= Len(filteredLeft))
  /\ pageLeft' = pageLeft + 1
  /\ last' = Step("next", "left", "-")
  /\ UNCHANGED <<data, sched, inflight, payloads, query, showTentativeOnly,
                 pageSize, pageRight>>

PrevRight ==
  /\ phase = "mounted"
  /\ pageRight # 0
  /\ pageRight' = IF pageRight - 1 > 0 THEN pageRight - 1 ELSE 0
  /\ last' = Step("prev", "right", "-")
  /\ UNCHANGED <<data, sched, inflight, payloads, query, showTentativeOnly,
                 pageSize, pageLeft>>

NextRight ==
  /\ phase = "mounted"
  /\ ~((pageRight + 1) * pageSize >= Len(filteredRight))
  /\ pageRight' = pageRight + 1
  /\ last' = Step("next", "right", "-")
  /\ UNCHANGED <<data, sched, inflight, payloads, query, showTentativeOnly,
                 pageSize, pageLeft>>

(***************************************************************************)
(* downloadCsv.  A text is a sequence of characters; a number's decimal    *)
(* form and a header name are held as one element of it.                   *)
(***************************************************************************)
headers == <<"id", "wagon_no", "train_no", "side", "container_no_1",
             "iso_code_1", "container_no_2", "iso_code_2", "finalizedAt",
             "time">>

\* the text of a value that is not a text field: String(v), a string as it is
StringOf(v) ==
  CASE v.k = "num" -> <<ToString(v.v)>>
    [] v.k = "date" -> <<"date", ToString(v.v)>>
    [] v.k = "nan" -> <<"NaN">>
    [] v.k = "bad" -> <<"x">>
    [] OTHER -> <<>>

\* r[h] ?? '' as a string
Cell(r, h) ==
  IF h \in {"id", "finalizedAt", "time"} THEN StringOf(r[h]) ELSE r[h]

\* s.replace(/"/g, '""')
RECURSIVE DoubleQuotes(_)
DoubleQuotes(t) ==
  IF t = <<>> THEN <<>>
  ELSE (IF Head(t) = "\"" THEN <<"\"", "\"">> ELSE <<Head(t)>>)
         \o DoubleQuotes(Tail(t))

\* Variant: the value is quoted as it is.
Quoted_NoEscape(t) == <<"\"">> \o t \o <<"\"">>

Quoted(t) == <<"\"">> \o DoubleQuotes(t) \o <<"\"">>

\* Array.prototype.join
RECURSIVE join(_, _)
join(parts, sep) ==
  IF parts = <<>> THEN <<>>
  ELSE IF Len(parts) = 1 THEN parts[1]
  ELSE parts[1] \o <<sep>> \o join(Tail(parts), sep)

CsvLine(r) == join([i \in DOMAIN headers |-> Quoted(Cell(r, headers[i]))], ",")

\* Variant: an empty sequence is exported as a file with the header line.
downloadCsv_HeaderOnly(rows, filename) ==
  [built |-> TRUE, download |-> filename,
   content |-> join(<<join([i \in DOMAIN headers |-> <<headers[i]>>], ",")>>
                      \o [i \in DOMAIN rows |-> CsvLine(rows[i])], "\n")]

\* what downloadCsv(rows, filename) hands to the browser
downloadCsv(rows, filename) ==
  IF Len(rows) = 0 THEN NoFile
  ELSE [built |-> TRUE, download |-> filename,
        content |-> join(<<join([i \in DOMAIN headers |-> <<headers[i]>>], ",")>>
                           \o [i \in DOMAIN rows |-> CsvLine(rows[i])], "\n")]

\* Variant: the left export takes the page on screen.
ExportLeft_Paged ==
  /\ phase = "mounted"
  /\ last' = [Step("export", "left", "-")
                 EXCEPT !.file = downloadCsv(pagedLeft, "left-sequences.csv")]
  /\ UNCHANGED <<data, sched, inflight, payloads, view>>

\* the Export Left CSV / Export Right CSV buttons
ExportLeft ==
  /\ phase = "mounted"
  /\ last' = [Step("export", "left", "-")
                 EXCEPT !.file = downloadCsv(filteredLeft, "left-sequences.csv")]
  /\ UNCHANGED <<data, sched, inflight, payloads, view>>

ExportRight ==
  /\ phase = "mounted"
  /\ last' = [Step("export", "right", "-")
                 EXCEPT !.file = downloadCsv(filteredRight, "right-sequences.csv")]
  /\ UNCHANGED <<data, sched, inflight, payloads, view>>

(***************************************************************************)
(* The view over a backend that answers with a long lane (more rows than   *)
(* the smallest page) or with a short lane of rows that differ in their    *)
(* searchable fields and in finalizedAt; the operator types one of         *)
(* Queries into the search box.                                            *)
(***************************************************************************)
\* Number of rows of the long lane.
LongLane == 12

LongRows ==
  [i \in 1..LongLane |->
     [Row(NumV(i), Null, NumV(1000 + i),
          IF i % 2 = 0 THEN DateV(1000 + i) ELSE Null, Null, Null)
        EXCEPT !.wagon_no = IF i % 3 = 0 THEN <<"A">> ELSE <<"1">>]]

\* a tentative row
RowW == [Row(NumV(21), Null, NumV(3000), Null, Null, Null)
           EXCEPT !.wagon_no = <<"A", "1">>, !.container_no_1 = <<"a">>]
\* a finalized row
RowF == [Row(NumV(22), Null, Null, DateV(2500), Null, Null)
           EXCEPT !.wagon_no = <<"1">>, !.container_no_2 = <<"A">>]
\* a row whose finalizedAt is the number 0, with a quote and a comma in a
\* text field
RowZ == [Row(NumV(23), Null, NumV(2000), NumV(0), Null, Null)
           EXCEPT !.train_no = <<"a", "\"", ",">>, !.side = <<"left">>,
                  !.iso_code_1 = <<"2", "2", "G", "1">>]

MixedRows == <<RowW, NilRow, RowF, RowZ>>

ViewBodies ==
  { Body(TRUE, Arr(LongRows), Arr(<<>>), Null),
    Body(TRUE, Arr(MixedRows), Arr(<<PendingP>>), Null) }

Queries == {<<>>, <<"a">>, <<"A", "1">>, <<"1", " ">>}

InitView == Start(ViewBodies)

NextView ==
  \/ Mount
  \/ inflight = EmptyBag /\ Refresh
  \/ \E req \in BagToSet(inflight), resp \in Responses : Settle(req, resp)
  \/ \E q \in Queries : SetQuery(q)
  \/ \E checked \in BOOLEAN : SetShowTentativeOnly(checked)
  \/ \E n \in PageSizes : SetPageSize(n)
  \/ PrevLeft
  \/ NextLeft
  \/ PrevRight
  \/ NextRight
  \/ ExportLeft
  \/ ExportRight

SpecView == InitView /\ [][NextView]_vars

(***************************************************************************)
(* Properties.                                                             *)
(***************************************************************************)
\* requests of one lane in a bag of requests
InFlight(bag, lane) ==
  LET S == {r \in BagToSet(bag) : r.lane = lane}
  IN BagCardinality([r \in S |-> bag[r]])

\* a > b on JavaScript numbers (false when either is NaN)
Gt(a, b) == a.k = "num" /\ b.k = "num" /\ a.v > b.v

\* C1: a fetch that ends in a rejection, a response without data or a
\* response whose ok is falsy changes no lane, no pending list and not the
\* buffer, and its promise is fulfilled (nothing propagates).
C1_FailedFetchKeepsState ==
  [][(last'.op = "settle" /\ last'.res # "ok")
       => (UNCHANGED data /\ last'.promise = "fulfilled")]_vars

\* a not-ok response with rows and a buffer of its own settled for the right
\* lane while both lanes and the buffer held data
C1_Witness ==
  /\ last.op = "settle" /\ last.arg = "right" /\ last.res = "notok"
  /\ rightRows = <<RowB, RowA>>
  /\ leftRows # <<>>
  /\ buffer = NumV(1)

\* C2: each lane's rows are in descending canonical-timestamp order: no row
\* stands after a row with a smaller timestamp.
Descending(rows) ==
  \A i, j \in 1..Len(rows) :
     i < j => ~Gt(rowTimestamp(rows[j]), rowTimestamp(rows[i]))

C2_RowsDescending == Descending(leftRows) /\ Descending(rightRows)

\* C3: an ok response without a buffer field leaves the buffer as it was, and
\* a buffer that is not null never becomes null.
C3_BufferKept ==
  [][/\ \A req \in BagToSet(inflight), resp \in Responses :
          (Settle(req, resp) /\ Usable(resp) /\ resp.data.buffer.k = "null")
            => buffer' = buffer
     /\ buffer # Null => buffer' # Null]_vars

\* C4: after teardown no interval is running and the socket is closed.
C4_TeardownStopsAll ==
  phase = "unmounted" => (timers = {} /\ sock \in {"none", "closed"})

\* C5: at most one interval is ever created.
C5_OneTimer == created <= 1 /\ Cardinality(timers) <= 1

\* a failure handler ran while pollRef already held the interval
C5_Witness ==
  /\ last.op \in {"connect_error", "disconnect"}
  /\ last.arg = "polling"
  /\ timers = {1}

\* C6: while the component is mounted a running interval keeps running,
\* whatever the step (a connect included), and each tick sends one request
\* per lane.
C6_PollingPersists ==
  [][/\ (timers # {} /\ phase' = "mounted") => timers' = timers
     /\ last'.op = "tick"
          => /\ InFlight(inflight', "left") = InFlight(inflight, "left") + 1
             /\ InFlight(inflight', "right") = InFlight(inflight, "right") + 1]_vars

\* a tick fired while the channel was connected again
C6_Witness ==
  /\ last.op = "tick"
  /\ sock = "connected"
  /\ phase = "mounted"
  /\ InFlight(inflight, "left") = 1 /\ InFlight(inflight, "right") = 1

\* C7 as stated: the connected channel and the interval are never both active.
C7_NeverBoth == ~(sock = "connected" /\ timers # {})

\* C7 amended: an interval is created only by a step that handles
\* connect_error, disconnect (also the one socket.disconnect() emits in the
\* cleanup) or the failure of io() in the effect.
C7_PollingOnlyAsFallback ==
  [][created' # created
       => \/ last'.op \in {"connect_error", "disconnect", "teardown"}
          \/ (last'.op = "mount" /\ last'.arg = "throw")]_vars

\* the channel reconnected while the interval runs: both are active
C7_Witness ==
  /\ last.op = "connect"
  /\ sock = "connected"
  /\ timers # {}

\* C8: each event sends exactly the requests of its scope, whatever is in
\* flight already.
Sends(left, right) ==
  /\ InFlight(inflight', "left") = InFlight(inflight, "left") + left
  /\ InFlight(inflight', "right") = InFlight(inflight, "right") + right

C8_OneRefreshPerTrigger ==
  [][/\ last'.op = "sequence:left:changed" => Sends(1, 0)
     /\ last'.op = "sequence:right:changed" => Sends(0, 1)
     /\ last'.op \in {"sequence:changed", "sequencing:change",
                      "container:changed", "flush"} => Sends(1, 1)
     /\ (last'.op = "update" /\ last'.arg = "left") => Sends(1, 0)
     /\ (last'.op = "update" /\ last'.arg = "right") => Sends(0, 1)
     /\ (last'.op = "update" /\ last'.arg \in {"none", "other"})
          => Sends(1, 1)]_vars

\* a second left trigger sent its request while the first was in flight
C8_Witness ==
  /\ last.op = "sequence:left:changed"
  /\ InFlight(inflight, "left") = 2

\* C9: update {side:'left'} sends a left request only, and settling a left
\* request leaves the right lane alone; the same with the sides exchanged.
C9_UpdateSideFrame ==
  [][/\ (last'.op = "update" /\ last'.arg = "left")
          => InFlight(inflight', "right") = InFlight(inflight, "right")
     /\ (last'.op = "update" /\ last'.arg = "right")
          => InFlight(inflight', "left") = InFlight(inflight, "left")
     /\ (last'.op = "settle" /\ last'.arg = "left")
          => UNCHANGED <<rightRows, rightPending>>
     /\ (last'.op = "settle" /\ last'.arg = "right")
          => UNCHANGED <<leftRows, leftPending>>]_vars

\* update {side:'left'} arrived with rows in the right lane; its request is
\* the only one in flight
C9_Witness ==
  /\ last.op = "update" /\ last.arg = "left"
  /\ rightRows # <<>>
  /\ InFlight(inflight, "left") = 1 /\ InFlight(inflight, "right") = 0

\* C10: when io() throws in the effect the interval is started and the status
\* set to polling; the interval then runs as long as the component is mounted
\* and each tick sends one request per lane.
C10_SetupFailureFallsBack ==
  [][/\ (last'.op = "mount" /\ last'.arg = "throw")
          => (timers' # {} /\ pollRef' # 0 /\ status' = "polling")
     /\ (phase' = "mounted" /\ ~socketRef') => timers' # {}
     /\ (last'.op = "tick" /\ ~socketRef') => Sends(1, 1)]_vars

\* a tick in a session whose io() threw
C10_Witness ==
  /\ last.op = "tick"
  /\ ~socketRef
  /\ phase = "mounted"

\* C11: after connect_error the status is socket:error and the interval
\* runs; after disconnect the status is socket:disconnected and the interval
\* runs; after connect the status is socket:connected.
C11_StatusAfterChannelEvent ==
  [][/\ last'.op = "connect_error"
          => (status' = "socket:error" /\ pollRef' \in timers')
     /\ last'.op = "disconnect"
          => (status' = "socket:disconnected" /\ pollRef' \in timers')
     /\ last'.op = "connect" => status' = "socket:connected"]_vars

\* connect_error was handled with no interval yet: it started one and the
\* status is socket:error, not polling
C11_Witness ==
  /\ last.op = "connect_error" /\ last.arg = "idle"
  /\ status = "socket:error"
  /\ timers = {1}

\* C12: the effect sends both initial requests at once; the status becomes
\* ready only when neither is in flight any more, and it does become ready
\* then whatever the two responses were; a fetch promise is always fulfilled
\* and a usable response is stored whatever the other request did.
AwaitingInitial(bag) ==
  \E lane \in Lanes : BagIn(Request(lane, FirstRenderBuffer, TRUE), bag)

C12_FullRefreshWaitsForBoth ==
  [][/\ last'.op = "mount"
          => /\ InFlight(inflight', "left") = 1
             /\ InFlight(inflight', "right") = 1
     /\ AwaitingInitial(inflight') => status' # "ready"
     /\ (AwaitingInitial(inflight) /\ ~AwaitingInitial(inflight')
           /\ phase' = "mounted") => status' = "ready"
     /\ last'.op = "settle" => last'.promise = "fulfilled"
     /\ (last'.op = "settle" /\ last'.res = "ok" /\ last'.arg = "right")
          => \E b \in Bodies : rightRows' = sortRowsDesc(OrEmpty(b.rows))]_vars

\* the left initial request was rejected, the right one stored its rows, and
\* the status is ready
C12_Witness ==
  /\ status = "ready"
  /\ last.op = "settle" /\ last.arg = "left" /\ last.res = "reject"
  /\ leftRows = <<>>
  /\ rightRows = <<RowB, RowA>>
  /\ sock = "connecting" /\ timers = {}

\* C13: a usable response replaces its lane's rows and pending list by its
\* own, whichever request it answers (the initial one or a later one) and
\* whatever the lane holds from responses that came before.
LaneRows(lane) == IF lane = "left" THEN leftRows ELSE rightRows
LanePending(lane) == IF lane = "left" THEN leftPending ELSE rightPending

C13_LastArrivalWins ==
  [][\A req \in BagToSet(inflight), resp \in Responses :
       (Settle(req, resp) /\ Usable(resp))
         => /\ LaneRows(req.lane)' = sortRowsDesc(OrEmpty(resp.data.rows))
            /\ LanePending(req.lane)' = OrEmpty(resp.data.pendingContainers)]_vars

\* the initial right request is still in flight and the right lane already
\* holds the rows of a request sent after it
C13_Witness ==
  /\ BagIn(Request("right", FirstRenderBuffer, TRUE), inflight)
  /\ rightRows # <<>>

\* C14: a usable response replaces the lane wholesale: the lane's rows
\* afterwards are a permutation of the rows of the response (each as often
\* as the response holds it, none of the rows held before unless the
\* response holds it), and the pending list is the response's, in its order
\* (empty when the response has none).
BagOfSeq(q) ==
  LET S == {q[i] : i \in DOMAIN q}
  IN [x \in S |-> Cardinality({i \in DOMAIN q : q[i] = x})]

RowsOf(x) == IF x.k = "arr" THEN x.v ELSE <<>>

C14_FetchReplacesLane ==
  [][\A req \in BagToSet(inflight), resp \in Responses :
       (Settle(req, resp) /\ Usable(resp))
         => /\ BagOfSeq(LaneRows(req.lane)') = BagOfSeq(RowsOf(resp.data.rows))
            /\ resp.data.pendingContainers.k = "arr"
                 => LanePending(req.lane)' = resp.data.pendingContainers
            /\ resp.data.pendingContainers.k = "null"
                 => LanePending(req.lane)' = Arr(<<>>)]_vars

\* the left lane, which held the rows of another response, now holds the
\* three rows of a response that repeats a row
C14_Witness ==
  /\ last.op = "settle" /\ last.arg = "left" /\ last.res = "ok"
  /\ leftRows = <<RowB, RowA, RowA>>
  /\ rightRows = <<RowB>>
  /\ leftPending = Arr(<<PendingP>>)

\* C15: the canonical timestamp of every row a lane holds is a finite
\* number, whatever fields the row has.
C15_TimestampFinite ==
  \A lane \in Lanes : \A i \in DOMAIN LaneRows(lane) :
     rowTimestamp(LaneRows(lane)[i]).k = "num"

\* C16: normalizing is idempotent (normalizing the rows a lane holds returns
\* them element for element), and a response whose rows are already in
\* descending order is stored as it is.
C16_NormalizeIdempotent ==
  [][/\ \A lane \in Lanes :
          sortRowsDesc(Arr(LaneRows(lane)')) = LaneRows(lane)'
     /\ \A req \in BagToSet(inflight), resp \in Responses :
          (/\ Settle(req, resp) /\ Usable(resp)
           /\ resp.data.rows.k = "arr" /\ Descending(resp.data.rows.v))
            => LaneRows(req.lane)' = resp.data.rows.v]_vars

\* the left lane holds a response that came in descending order, with two
\* rows of equal timestamp in the order of the response
C16_Witness ==
  /\ last.op = "settle" /\ last.arg = "left" /\ last.res = "ok"
  /\ leftRows = <<RowB, RowC, RowA>>
  /\ Arr(<<RowB, RowC, RowA>>) \in {b.rows : b \in payloads}

Ids(q) == [i \in DOMAIN q |-> q[i].id]

Distinct(q) == \A i, j \in DOMAIN q : i # j => q[i] # q[j]

C18_LanesAreSequences ==
  \A lane \in Lanes :
     /\ DOMAIN LaneRows(lane) = 1..Len(LaneRows(lane))
     /\ LanePending(lane).k = "arr"

\* C19: with the tentative-only filter set, the filtered view of a lane has
\* no row whose finalizedAt is not null, and has every row of the lane
\* without a finalizedAt that passes the search text.
Filtered(lane) == IF lane = "left" THEN filteredLeft ELSE filteredRight
Paged(lane) == IF lane = "left" THEN pagedLeft ELSE pagedRight
Page(lane) == IF lane = "left" THEN pageLeft ELSE pageRight

PassesSearch(row) ==
  query = <<>> \/ includes(SearchText(row), toLowerCase(query))

C19_TentativeOnlyByFinalizedAt ==
  showTentativeOnly =>
    \A lane \in Lanes :
       /\ \A i \in DOMAIN Filtered(lane) : Filtered(lane)[i].finalizedAt = Null
       /\ \A i \in DOMAIN LaneRows(lane) :
            LET row == LaneRows(lane)[i]
            IN (~row.nil /\ row.finalizedAt = Null /\ PassesSearch(row))
                 => \E j \in DOMAIN Filtered(lane) : Filtered(lane)[j] = row

\* C20 as stated: with an empty search text and the tentative-only filter
\* off, the filtered rows of a lane are the lane's rows, and the page is the
\* window [page*pageSize, (page+1)*pageSize) of them.
Window(q, page, size) ==
  LET rest == Len(q) - page * size
      n == IF rest < 0 THEN 0 ELSE IF rest < size THEN rest ELSE size
  IN [i \in 1..n |-> q[page * size + i]]

C20_NoExclusions ==
  (query = <<>> /\ ~showTentativeOnly) =>
    \A lane \in Lanes :
       /\ Filtered(lane) = LaneRows(lane)
       /\ Paged(lane) = Window(LaneRows(lane), Page(lane), pageSize)

\* C20, amended: with an empty search text and the tentative-only filter
\* off, the filtered rows of a lane are the lane's entries that are rows
\* (not null), in the lane's order, and the page is the window
\* [page*pageSize, (page+1)*pageSize) of the filtered rows.
IsRow(row) == ~row.nil

C20_OnlyNullEntriesExcluded ==
  (query = <<>> /\ ~showTentativeOnly) =>
    \A lane \in Lanes :
       /\ Filtered(lane) = SelectSeq(LaneRows(lane), IsRow)
       /\ Paged(lane) = Window(Filtered(lane), Page(lane), pageSize)

\* no filter is set, the left lane shows the second page of the long lane
\* (finalized rows among them), and the right lane holds a null entry
C20_Witness ==
  /\ query = <<>> /\ ~showTentativeOnly
  /\ Len(leftRows) = LongLane /\ pageSize = 10 /\ pageLeft = 1
  /\ Len(pagedLeft) = LongLane - 10
  /\ \E i \in DOMAIN pagedLeft : pagedLeft[i].finalizedAt # Null
  /\ \E i \in DOMAIN rightRows : rightRows[i] = NilRow

\* C21: a change of the search text or of the page size sets both page
\* indices to 0.
C21_SearchAndSizeResetPages ==
  [][last'.op \in {"query", "pageSize"} => (pageLeft' = 0 /\ pageRight' = 0)]_vars

\* the page size was changed to 50 while the long lane is on screen (it has
\* a second page at size 10 only), and both lanes are on their first page
C21_Witness ==
  /\ last.op = "pageSize" /\ pageSize = 50
  /\ Len(leftRows) = LongLane /\ Len(rightRows) = LongLane
  /\ pageLeft = 0 /\ pageRight = 0

\* C22: a change of the tentative-only filter sets both page indices to 0.
C22_TentativeOnlyResetsPages ==
  [][last'.op = "tentativeOnly" => (pageLeft' = 0 /\ pageRight' = 0)]_vars

\* C23: the export of a lane whose filtered sequence is not empty builds a
\* file with the header line and then one line per filtered row, in the
\* filtered order, whatever the page index and the page size; every line
\* reads back as one quoted value per header column, the values of the row.
\* the lines of a text
SplitLines(t) ==
  LET breaks == {i \in DOMAIN t : t[i] = "\n"}
      \* where line k ends: the k-th line break, or the end of the text
      end(k) == IF k > Cardinality(breaks) THEN Len(t) + 1
                ELSE CHOOSE i \in breaks :
                       Cardinality({j \in breaks : j < i}) = k - 1
  IN [k \in 1..(Cardinality(breaks) + 1) |->
        SubSeq(t, IF k = 1 THEN 1 ELSE end(k - 1) + 1, end(k) - 1)]

\* the values of a line of quoted, comma-separated values; <<>> when a
\* value of the line is not quoted
RECURSIVE ReadValues(_, _, _, _)
ReadValues(t, inside, cur, acc) ==
  IF t = <<>> THEN (IF inside THEN <<>> ELSE Append(acc, cur))
  ELSE IF inside
       THEN IF Head(t) # "\"" THEN ReadValues(Tail(t), TRUE, Append(cur, Head(t)), acc)
            ELSE IF Len(t) > 1 /\ t[2] = "\""
                 THEN ReadValues(Tail(Tail(t)), TRUE, Append(cur, "\""), acc)
                 ELSE IF Len(t) = 1 \/ t[2] = ","
                      THEN ReadValues(Tail(t), FALSE, cur, acc)
                      ELSE <<>>
       ELSE IF Head(t) = "\"" /\ cur = <<>> THEN ReadValues(Tail(t), TRUE, cur, acc)
            ELSE IF Head(t) = "," /\ Len(t) > 1 /\ t[2] = "\""
                 THEN ReadValues(Tail(t), FALSE, <<>>, Append(acc, cur))
                 ELSE <<>>

\* the values of a row under the header columns, as text
ValuesOf(r) ==
  << StringOf(r.id), r.wagon_no, r.train_no, r.side, r.container_no_1,
     r.iso_code_1, r.container_no_2, r.iso_code_2, StringOf(r.finalizedAt),
     StringOf(r.time) >>

HeaderLine ==
  << "id", ",", "wagon_no", ",", "train_no", ",", "side", ",",
     "container_no_1", ",", "iso_code_1", ",", "container_no_2", ",",
     "iso_code_2", ",", "finalizedAt", ",", "time" >>

C23_ExportIsFilteredSequence ==
  [][\A lane \in Lanes :
       (last'.op = "export" /\ last'.arg = lane /\ Filtered(lane) # <<>>)
         => /\ last'.file.built
            /\ LET lines == SplitLines(last'.file.content)
               IN /\ Len(lines) = 1 + Len(Filtered(lane))
                  /\ lines[1] = HeaderLine
                  /\ \A i \in DOMAIN Filtered(lane) :
                       ReadValues(lines[i + 1], FALSE, <<>>, <<>>)
                         = ValuesOf(Filtered(lane)[i])]_vars

\* the left lane is on its second page of ten rows, and the export has
\* built a file for the twelve rows of the long lane
C23_Witness ==
  /\ last.op = "export" /\ last.arg = "left" /\ last.file.built
  /\ pageLeft = 1 /\ pageSize = 10
  /\ Len(filteredLeft) = LongLane
  /\ Len(pagedLeft) < Len(filteredLeft)

\* C24: the export of a lane whose filtered sequence is empty builds no
\* file, starts no download and changes no state.
C24_EmptyExportIsNoOp ==
  [][\A lane \in Lanes :
       (last'.op = "export" /\ last'.arg = lane /\ Filtered(lane) = <<>>)
         => /\ last'.file = NoFile
            /\ UNCHANGED <<data, sched, inflight, payloads, view>>]_vars

\* the right lane holds rows, none of them passes the filters, and the
\* export of the right lane has built nothing
C24_Witness ==
  /\ last.op = "export" /\ last.arg = "right" /\ ~last.file.built
  /\ rightRows # <<>> /\ filteredRight = <<>>

\* C25: after a click on "Flush both", whatever the POSTs answer, a step
\* that sends a left and a right fetch follows (the button's own fetchAll
\* or, where the timer runs, a tick).
C25_FlushThenFullRefresh ==
  (last.op = "flush:click")
    ~> (\/ last.op = "flush:post" /\ last.res = "fetchAll"
        \/ last.op = "tick")

\* C26: the canonical timestamp of a row is the value of the first usable
\* source in the order wagonRaw.time, time, finalizedAt, createdAt, then the
\* numeric id, then 0.
Usable_(v) == v.k = "num" \/ v.k = "date"

RECURSIVE FirstUsable(_)
FirstUsable(sources) ==
  IF sources = <<>> THEN Null
  ELSE IF Usable_(Head(sources)) THEN NumV(Head(sources).v)
  ELSE FirstUsable(Tail(sources))

ByPriority(r) ==
  LET t == FirstUsable(<<r.wagonRawTime, r.time, r.finalizedAt, r.createdAt>>)
  IN IF t # Null THEN t
     ELSE IF r.id.k = "num" THEN r.id
     ELSE NumV(0)

C26_TimestampByPriority ==
  \A lane \in Lanes : \A i \in DOMAIN LaneRows(lane) :
     rowTimestamp(LaneRows(lane)[i]) = ByPriority(LaneRows(lane)[i])

\* C27: normalization is stable: the rows of a response that have the same
\* canonical timestamp stand in the lane in the order they have in the
\* response.
WithTimestamp(q, t) ==
  LET Same(r) == rowTimestamp(r) = t
  IN SelectSeq(q, Same)

C27_StableSort ==
  [][\A req \in BagToSet(inflight), resp \in Responses :
       (Settle(req, resp) /\ Usable(resp))
         => \A r \in RowPool :
              rowTimestamp(r).k = "num"
                => WithTimestamp(LaneRows(req.lane)', rowTimestamp(r))
                     = WithTimestamp(RowsOf(resp.data.rows), rowTimestamp(r))]_vars

\* the right lane holds a response in which the two rows of equal
\* timestamp came before a newer row: they follow it in their order
C27_Witness ==
  /\ last.op = "settle" /\ last.arg = "right" /\ last.res = "ok"
  /\ rightRows = <<RowB, RowC, RowA>>
  /\ Arr(<<RowC, RowA, RowB>>) \in {b.rows : b \in payloads}

\* C28: a status set by the channel (connect, connect_error, disconnect or
\* the setup failure) is not replaced by "ready" when the initial refresh
\* completes.
ChannelStatuses ==
  {"socket:connected", "socket:error", "socket:disconnected", "polling"}

C28_ReadyKeepsChannelStatus ==
  [][(status \in ChannelStatuses /\ last'.op = "settle")
       => status' = status]_vars

\* C29: the page index of each lane is in range: it is 0, or page*pageSize
\* is less than the length of the lane's filtered sequence.
C29_PageInRange ==
  \A lane \in Lanes :
     Page(lane) = 0 \/ Page(lane) * pageSize < Len(Filtered(lane))

====
